---- MODULE Spec2Model ----
(***************************************************************************)
(* A model of dabl's supervised plotting (dabl/plot/supervised.py) and of  *)
(* its estimator explainer (dabl/explain.py).                              *)
(*                                                                         *)
(* Three specifications share the module:                                  *)
(*   Spec        plot() and the four panel routines, at the level of the   *)
(*               figures, prints and exceptions each call produces;        *)
(*   SpecRank    the feature ranking np.argsort(f)[-show_top:][::-1] of    *)
(*               the four panel routines, on concrete score vectors;       *)
(*   SpecExplain explain() and _extract_inner_estimator.                   *)
(***************************************************************************)
EXTENDS Integers, Sequences, FiniteSets, TLC

VARIABLES
    pc,         \* position of the running call
    X_types,    \* the type annotation the caller's data comes with
    types,      \* the type annotation in use (plot() rewrites low_card_int)
    target_col, \* the target column of X
    ordinal,    \* the columns of X that guess_ordinal accepts
    n_rows,     \* X.shape[0]
    n_classes,  \* X[target_col].nunique()
    branch,     \* the branch plot() selected
    trace,      \* the routines plot() has run, in order
    output,     \* figures created and lines printed, in order
    call,       \* the panel routine call last made: arguments and outcome
    rank,       \* SpecRank: one ranking, its inputs and result
    est,        \* SpecExplain: the estimator passed to explain()
    ex          \* SpecExplain: the explain() call, arguments and outcome

vars == <<pc, X_types, types, ordinal, target_col, n_rows, n_classes, branch, trace,
          output, call, rank, est, ex>>

\* what a ranking leaves alone
plotState == <<X_types, types, ordinal, target_col, n_rows, n_classes, branch, trace,
               output, call>>

-----------------------------------------------------------------------------
(* Bounds of the model *)

NCols == 7          \* columns of X, the target included
MaxRows == 8        \* rows of the larger dataset
MaxClasses == 6     \* classes of the largest classification target
MaxLowCard == 2     \* low-cardinality integer columns of X, at most
MaxFeatures == 6    \* SpecRank: features of one kind, at most
MaxScore == 2       \* SpecRank: relevance scores are 0..MaxScore
MaxDepth == 2       \* SpecExplain: wrappers and pipelines around a model
MaxExplainClasses == 3  \* SpecExplain: len(estimator.classes_), at most
ShowTopCap == 3     \* the cap of the "show top N" budget

(* Program constants *)

PairplotMax == 5            \* features.shape[1] <= 5: pairplot
AutoCountAbove == 5         \* kind='auto': nunique() > 5 -> 'count'
DefaultTopKInteractions == 10
HowManyRaw == 4
HowManyPCA == 3
HowManyLDA == 4

Min(a, b) == IF a <= b THEN a ELSE b

Cols == 1..NCols

TypeFlags == [continuous : BOOLEAN, categorical : BOOLEAN,
              low_card_int : BOOLEAN]

Flag(kind) == [continuous |-> kind = "continuous",
               categorical |-> kind = "categorical",
               low_card_int |-> kind = "low_card_int"]

(* Datasets: the columns grouped by detected type, nc continuous columns,  *)
(* then ng categorical ones, then low-cardinality integers.  The panel     *)
(* routines keep the column order within a type and never compare columns  *)
(* of different types.                                                     *)
Layout(nc, ng) ==
    [c \in Cols |-> IF c <= nc THEN Flag("continuous")
                    ELSE IF c <= nc + ng THEN Flag("categorical")
                    ELSE Flag("low_card_int")]

RowChoices == {2, MaxRows}
ClassChoices == {2, 3, MaxClasses}

Kinds == {"auto", "count", "proportion", "mosaic", "bogus"}
UnivariatePlots == {"histogram", "kde", "bogus"}
TopKChoices == {1, 2, DefaultTopKInteractions}

-----------------------------------------------------------------------------
(* Output log *)

Fig(name, panels) == [kind |-> "figure", name |-> name, panels |-> panels]
Printed(name) == [kind |-> "print", name |-> name, panels |-> 0]

NoCall == [routine |-> "none", features |-> <<>>, args |-> <<>>,
           out |-> <<>>, searches |-> <<>>, err |-> "none"]

Outcome(out, searches, err) ==
    [out |-> out, searches |-> searches, err |-> err]

-----------------------------------------------------------------------------
(* Helpers of dabl.plot.utils, not part of the sources at hand *)

\* _check_X_target_col(X, target_col, types, task): the annotation to use
CheckXTargetCol(t) == t

\* _get_n_top(features, name): all features when they are few, capped
GetNTop(n) == Min(n, ShowTopCap)

\* _find_scatter_plots_classification(X, target, how_many): the number of
\* pairs returned from a matrix of d columns
NumPairs(d, how_many) == Min(how_many, (d * (d - 1)) \div 2)

-----------------------------------------------------------------------------
(* Feature selection of the panel routines *)

RECURSIVE SelectCols(_, _, _)
SelectCols(t, kind, c) ==
    IF c > NCols THEN <<>>
    ELSE (IF t[c][kind] THEN <<c>> ELSE <<>>) \o SelectCols(t, kind, c + 1)

RECURSIVE Drop(_, _)
Drop(s, col) ==
    IF s = <<>> THEN <<>>
    ELSE (IF Head(s) = col THEN <<>> ELSE <<Head(s)>>) \o Drop(Tail(s), col)

Range(s) == {s[i] : i \in DOMAIN s}

FeaturesKeepTarget(t, kind, tc) == SelectCols(t, kind, 1)

\* features = X.loc[:, types.<kind>]; drop target_col when it is among them
Features(t, kind, tc) ==
    LET features == SelectCols(t, kind, 1)
    IN  IF tc \in Range(features) THEN Drop(features, tc) ELSE features

NoFeaturesNever(features) == FALSE

\* if features.shape[1] == 0: return
NoFeatures(features) == Len(features) = 0

-----------------------------------------------------------------------------
(* plt.subplots(1, ncols) and the use of axes.ravel() on its result *)

\* squeeze=True: a single Axes object, not an array, when there is one cell
SubplotsIsArray(ncols) == ncols # 1

\* axes.ravel() works on an array; `guarded` is the rewrap
\* "if len(top_pairs) <= 1: axes = np.array([axes])" before it
RavelOK(ncols, n_pairs, guarded) ==
    SubplotsIsArray(ncols) \/ (guarded /\ n_pairs <= 1)

-----------------------------------------------------------------------------
(* plot_regression_continuous, plot_regression_categorical *)

RegressionContinuous(features) ==
    IF NoFeatures(features) THEN Outcome(<<>>, <<>>, "none")
    ELSE LET show_top == GetNTop(Len(features))
         IN  Outcome(<<Fig("regression_continuous",
                           Min(show_top, Len(features)))>>, <<>>, "none")

RegressionCategorical(features) ==
    IF NoFeatures(features) THEN Outcome(<<>>, <<>>, "none")
    ELSE LET show_top == GetNTop(Len(features))
         IN  Outcome(<<Fig("regression_categorical",
                           Min(show_top, Len(features)))>>, <<>>, "none")

-----------------------------------------------------------------------------
(* plot_classification_categorical *)

\* kind == "auto": 'count' for more than 5 classes, 'mosaic' otherwise
ResolveKind(kind, nunique) ==
    IF kind = "auto"
    THEN (IF nunique > AutoCountAbove THEN "count" ELSE "mosaic")
    ELSE kind

KnownKinds == {"proportion", "mosaic", "count"}

ClassificationCategorical(features, kind, nunique) ==
    LET k == ResolveKind(kind, nunique)
    IN  IF NoFeatures(features) THEN Outcome(<<>>, <<>>, "none")
        ELSE LET show_top == GetNTop(Len(features))
             IN  \* _make_subplots and suptitle come before the loop whose
                 \* first pass looks at kind
                 IF k \in KnownKinds
                 THEN Outcome(<<Fig("classification_categorical",
                                    Min(show_top, Len(features)))>>,
                              <<>>, "none")
                 ELSE Outcome(<<Fig("classification_categorical", 0)>>,
                              <<>>, "ValueError")

-----------------------------------------------------------------------------
(* plot_classification_continuous *)

Search(space, dims, pairs) ==
    [space |-> space, dims |-> dims, pairs |-> pairs]

Add(st, entries) == [st EXCEPT !.out = @ \o entries]
Raise(st, e) == [st EXCEPT !.err = e, !.done = TRUE]
Return(st) == [st EXCEPT !.done = TRUE]

\* plt.subplots(1, ncols, ...), the scatter loop over zip(..., axes.ravel())
\* and fig.suptitle.  plt.subplots makes the figure, then the grid.
\* zero_cols_raises: whether the plotting library at hand rejects a grid of
\* zero columns (newer ones do) or leaves the figure empty.
DrawPairs(st, name, ncols, n_pairs, guarded, zero_cols_raises) ==
    IF ncols = 0 /\ zero_cols_raises
    THEN Raise(Add(st, <<Fig(name, 0)>>), "ValueError")
    ELSE IF ~RavelOK(ncols, n_pairs, guarded)
         THEN Raise(Add(st, <<Fig(name, 0)>>), "AttributeError")
         ELSE Add(st, <<Fig(name, n_pairs)>>)

\* lines 207-275: pairplot, or univariate plots and top feature interactions
UnivariateStage(st, n, univariate_plot, plot_pairwise, top_k_interactions, zero_cols_raises) ==
    IF n <= PairplotMax THEN Add(st, <<Fig("pairplot", n)>>)
    ELSE
      LET show_top == GetNTop(n)
          uni == IF univariate_plot = "kde"
                 THEN Add(st, <<Fig("kde", Min(show_top, n))>>)
                 ELSE IF univariate_plot = "histogram"
                 THEN Add(st, <<Fig("class_hists", Min(show_top, n))>>)
                 ELSE Raise(st, "ValueError")
          d == Min(top_k_interactions, n)
          n_pairs == NumPairs(d, HowManyRaw)
      IN  IF uni.done THEN uni
          ELSE IF ~plot_pairwise THEN Return(uni)
          ELSE DrawPairs([uni EXCEPT !.searches =
                                 @ \o <<Search("raw", d, n_pairs)>>],
                         "interactions", n_pairs, n_pairs, FALSE,
                         zero_cols_raises)

NComponents(top_k_interactions, rows, n) ==
    Min(top_k_interactions, Min(rows, n))

\* lines 276-312: PCA directions and the scree plot in the last cell
PCAStage(st, n, plot_pairwise, top_k_interactions, rows) ==
    LET n_components == NComponents(top_k_interactions, rows, n)
        n_pairs == NumPairs(n_components, HowManyPCA)
    IN  IF st.done THEN st
        ELSE IF ~plot_pairwise THEN Return(st)
        ELSE IF n_components < 2 THEN Return(st)
        ELSE DrawPairs([st EXCEPT !.searches =
                               @ \o <<Search("pca", n_components, n_pairs)>>],
                       "pca", n_pairs + 1, n_pairs, TRUE, FALSE)

LdaDimsOfClasses(n_components, nunique) == Min(n_components, nunique)

\* LinearDiscriminantAnalysis(n_components=min(n_components, nunique - 1))
LdaDims(n_components, nunique) == Min(n_components, nunique - 1)

\* lines 313-347: LDA, its training score, one histogram or the scatters
LDAStage(st, n, top_k_interactions, rows, nunique) ==
    LET n_components == NComponents(top_k_interactions, rows, n)
        dims == LdaDims(n_components, nunique)
        n_pairs == NumPairs(dims, HowManyLDA)
        fitted == Add(st, <<Printed("lda_score")>>)
    IN  IF st.done THEN st
        ELSE IF dims < 2
        THEN Return(Add(fitted, <<Fig("lda_hist", 1)>>))
        ELSE DrawPairs([fitted EXCEPT !.searches =
                               @ \o <<Search("lda", dims, n_pairs)>>],
                       "lda", n_pairs, n_pairs, TRUE, FALSE)

ClassificationContinuous(features, univariate_plot, plot_pairwise, top_k_interactions, rows, nunique, zero_cols_raises) ==
    LET n == Len(features)
        st0 == [out |-> <<>>, searches |-> <<>>, err |-> "none",
                done |-> FALSE]
        st1 == UnivariateStage(st0, n, univariate_plot, plot_pairwise,
                               top_k_interactions, zero_cols_raises)
        st2 == PCAStage(st1, n, plot_pairwise, top_k_interactions, rows)
        st3 == LDAStage(st2, n, top_k_interactions, rows, nunique)
    IN  IF NoFeatures(features) THEN Outcome(<<>>, <<>>, "none")
        ELSE Outcome(st3.out, st3.searches, st3.err)

-----------------------------------------------------------------------------
(* plot(): cleaning, the rewrite of low_card_int columns, the dispatch *)

LowCardCols(t) == {c \in Cols : t[c].low_card_int}

\* guess_ordinal(X[col]) of dabl.preprocessing, for each column of X
GuessOrdinal == [c \in Cols |-> c \in ordinal]

ReclassifyAllCategorical(t, guess) ==
    [c \in Cols |->
        IF ~t[c].low_card_int THEN t[c]
        ELSE [t[c] EXCEPT !.low_card_int = FALSE, !.categorical = TRUE]]

\* lines 489-497; guess[c]: what guess_ordinal answers for column c
Reclassify(t, guess) ==
    [c \in Cols |->
        IF ~t[c].low_card_int THEN t[c]
        ELSE IF guess[c]
             THEN [t[c] EXCEPT !.low_card_int = FALSE, !.continuous = TRUE]
             ELSE [t[c] EXCEPT !.low_card_int = FALSE, !.categorical = TRUE]]

BranchAlwaysRegression(t, tc) == "regression"

\* if types.continuous[target_col]: regression, else classification
BranchOf(t, tc) ==
    IF t[tc].continuous THEN "regression" ELSE "classification"

Args(kind, univariate_plot, plot_pairwise, top_k_interactions) ==
    [kind |-> kind, univariate_plot |-> univariate_plot,
     plot_pairwise |-> plot_pairwise,
     top_k_interactions |-> top_k_interactions]

NoArgs == Args("n/a", "n/a", FALSE, 0)

Called(routine, features, args, res) ==
    [routine |-> routine, features |-> features, args |-> args,
     out |-> res.out, searches |-> res.searches, err |-> res.err]

Init ==
    /\ pc = "idle"
    /\ \E nc \in 0..NCols, ng \in 0..NCols :
          /\ nc + ng <= NCols
          /\ NCols - (nc + ng) <= MaxLowCard
          /\ X_types = Layout(nc, ng)
    /\ types = X_types
    /\ ordinal \in SUBSET LowCardCols(X_types)
    /\ target_col \in Cols
    /\ n_rows \in RowChoices
    /\ n_classes \in {k \in ClassChoices : k <= n_rows}
    /\ branch = "none"
    /\ trace = <<>>
    /\ output = <<>>
    /\ call = [NoCall EXCEPT !.args = NoArgs]
    /\ rank = <<>>
    /\ est = <<>>
    /\ ex = <<>>

\* plot(), lines 485-499
CallPlot ==
    /\ pc = "idle"
    /\ types' = Reclassify(CheckXTargetCol(X_types), GuessOrdinal)
    /\ branch' = BranchOf(types', target_col)
    /\ trace' = <<>>
    /\ pc' = "plot_target"
    /\ UNCHANGED <<X_types, ordinal, target_col, n_rows, n_classes, output,
                   call,
                   rank, est, ex>>

\* plot(), lines 500-511 and 518-533: the target distribution
PlotTargetDistribution ==
    /\ pc = "plot_target"
    /\ IF branch = "regression"
       THEN /\ output' = output \o <<Printed("Target looks like regression"),
                                     Fig("target_histogram", 1)>>
            /\ trace' = Append(trace, "target_histogram")
       ELSE /\ output' = output \o
                           <<Printed("Target looks like classification"),
                             Fig("class_count_bar_chart", 1)>>
            /\ trace' = Append(trace, "class_count_bar_chart")
    /\ pc' = "plot_first"
    /\ UNCHANGED <<X_types, types, ordinal, target_col, n_rows, n_classes,
                   branch,
                   call, rank, est, ex>>

\* The effect of one panel routine call on the log, and where the caller
\* goes next: on, or out with the exception.
Run(routine, features, args, res, next) ==
    /\ call' = Called(routine, features, args, res)
    /\ output' = output \o res.out
    /\ pc' = IF res.err = "none" THEN next ELSE "raised"

\* plot(), lines 513-515
PlotRegressionContinuous ==
    /\ pc = "plot_first" /\ branch = "regression"
    /\ LET features == Features(CheckXTargetCol(types), "continuous",
                                target_col)
       IN  Run("plot_regression_continuous", features, NoArgs,
               RegressionContinuous(features), "plot_second")
    /\ trace' = Append(trace, "plot_regression_continuous")
    /\ UNCHANGED <<X_types, types, ordinal, target_col, n_rows, n_classes,
                   branch,
                   rank, est, ex>>

\* plot(), line 516
PlotRegressionCategorical ==
    /\ pc = "plot_second" /\ branch = "regression"
    /\ LET features == Features(CheckXTargetCol(types), "categorical",
                                target_col)
       IN  Run("plot_regression_categorical", features, NoArgs,
               RegressionCategorical(features), "done")
    /\ trace' = Append(trace, "plot_regression_categorical")
    /\ UNCHANGED <<X_types, types, ordinal, target_col, n_rows, n_classes,
                   branch,
                   rank, est, ex>>

\* plot(), lines 534-537
PlotClassificationContinuous ==
    /\ pc = "plot_first" /\ branch = "classification"
    /\ \E univariate_plot \in UnivariatePlots, plot_pairwise \in BOOLEAN,
          top_k_interactions \in TopKChoices, zero_cols_raises \in BOOLEAN :
          LET features == Features(CheckXTargetCol(types), "continuous",
                                   target_col)
          IN  Run("plot_classification_continuous", features,
                  Args("n/a", univariate_plot, plot_pairwise,
                       top_k_interactions),
                  ClassificationContinuous(features, univariate_plot,
                      plot_pairwise, top_k_interactions, n_rows, n_classes,
                      zero_cols_raises),
                  "plot_second")
    /\ trace' = Append(trace, "plot_classification_continuous")
    /\ UNCHANGED <<X_types, types, ordinal, target_col, n_rows, n_classes,
                   branch,
                   rank, est, ex>>

\* plot(), lines 538-539
PlotClassificationCategorical ==
    /\ pc = "plot_second" /\ branch = "classification"
    /\ \E kind \in Kinds :
          LET features == Features(CheckXTargetCol(types), "categorical",
                                   target_col)
          IN  Run("plot_classification_categorical", features,
                  Args(kind, "n/a", FALSE, 0),
                  ClassificationCategorical(features, kind, n_classes),
                  "done")
    /\ trace' = Append(trace, "plot_classification_categorical")
    /\ UNCHANGED <<X_types, types, ordinal, target_col, n_rows, n_classes,
                   branch,
                   rank, est, ex>>

-----------------------------------------------------------------------------
(* The panel routines called on their own, with any type annotation *)

CallRegressionContinuous ==
    /\ pc = "idle"
    /\ LET features == Features(CheckXTargetCol(types), "continuous",
                                target_col)
       IN  Run("plot_regression_continuous", features, NoArgs,
               RegressionContinuous(features), "done")
    /\ UNCHANGED <<X_types, types, ordinal, target_col, n_rows, n_classes,
                   branch,
                   trace, rank, est, ex>>

CallRegressionCategorical ==
    /\ pc = "idle"
    /\ LET features == Features(CheckXTargetCol(types), "categorical",
                                target_col)
       IN  Run("plot_regression_categorical", features, NoArgs,
               RegressionCategorical(features), "done")
    /\ UNCHANGED <<X_types, types, ordinal, target_col, n_rows, n_classes,
                   branch,
                   trace, rank, est, ex>>

CallClassificationContinuous ==
    /\ pc = "idle"
    /\ \E univariate_plot \in UnivariatePlots, plot_pairwise \in BOOLEAN,
          top_k_interactions \in TopKChoices, zero_cols_raises \in BOOLEAN :
          LET features == Features(CheckXTargetCol(types), "continuous",
                                   target_col)
          IN  Run("plot_classification_continuous", features,
                  Args("n/a", univariate_plot, plot_pairwise,
                       top_k_interactions),
                  ClassificationContinuous(features, univariate_plot,
                      plot_pairwise, top_k_interactions, n_rows, n_classes,
                      zero_cols_raises),
                  "done")
    /\ UNCHANGED <<X_types, types, ordinal, target_col, n_rows, n_classes,
                   branch,
                   trace, rank, est, ex>>

CallClassificationCategorical ==
    /\ pc = "idle"
    /\ \E kind \in Kinds :
          LET features == Features(CheckXTargetCol(types), "categorical",
                                   target_col)
          IN  Run("plot_classification_categorical", features,
                  Args(kind, "n/a", FALSE, 0),
                  ClassificationCategorical(features, kind, n_classes),
                  "done")
    /\ UNCHANGED <<X_types, types, ordinal, target_col, n_rows, n_classes,
                   branch,
                   trace, rank, est, ex>>

Next ==
    \/ CallPlot
    \/ PlotTargetDistribution
    \/ PlotRegressionContinuous
    \/ PlotRegressionCategorical
    \/ PlotClassificationContinuous
    \/ PlotClassificationCategorical
    \/ CallRegressionContinuous
    \/ CallRegressionCategorical
    \/ CallClassificationContinuous
    \/ CallClassificationCategorical

Spec == Init /\ [][Next]_vars

-----------------------------------------------------------------------------
(* Properties of plot() and the panel routines, checked under Spec *)

IsPrefix(s, t) == Len(s) <= Len(t) /\ s = SubSeq(t, 1, Len(s))

HasFig(out, name) ==
    \E i \in DOMAIN out : out[i].kind = "figure" /\ out[i].name = name

HasPrint(out, name) ==
    \E i \in DOMAIN out : out[i].kind = "print" /\ out[i].name = name

Figures(out) == {out[i].name : i \in {j \in DOMAIN out : out[j].kind = "figure"}}

InPlot == pc \in {"plot_target", "plot_first", "plot_second"}
             \/ (branch # "none" /\ pc \in {"done", "raised"})

RegressionSequence ==
    <<"target_histogram", "plot_regression_continuous",
      "plot_regression_categorical">>

ClassificationSequence ==
    <<"class_count_bar_chart", "plot_classification_continuous",
      "plot_classification_categorical">>

RegressionFigures ==
    {"target_histogram", "regression_continuous", "regression_categorical"}

\* C1: in plot() one branch runs per call, chosen by whether the target
\* column is typed continuous: what has run so far is always an initial
\* part of that branch's sequence (target histogram, regression continuous,
\* regression categorical; or class-count bar chart, classification
\* continuous, classification categorical), a call that returns has run the
\* whole sequence, and no figure of the other branch is ever created.
C1_OneBranchInOrder ==
    InPlot =>
        LET regression == types[target_col].continuous
            sequence == IF regression THEN RegressionSequence
                        ELSE ClassificationSequence
        IN  /\ branch = (IF regression THEN "regression"
                         ELSE "classification")
            /\ IsPrefix(trace, sequence)
            /\ (pc = "plot_first" => Len(trace) = 1)
            /\ (pc = "plot_second" => Len(trace) = 2)
            /\ (pc = "done" => trace = sequence)
            /\ (regression => Figures(output) \subseteq RegressionFigures)
            /\ (~regression => Figures(output) \cap RegressionFigures = {})

C1_ClassificationBranchDone ==
    /\ pc = "done" /\ branch = "classification"
    /\ trace = ClassificationSequence
    /\ HasFig(output, "class_count_bar_chart")
    /\ HasFig(output, "classification_categorical")

\* C2: a panel routine that finds no feature of its kind, the target column
\* removed, returns without a figure and without an exception, and plot()
\* goes on to the panel that follows it in the branch.
C2_NoFeaturesSkipsSilently ==
    (call.routine # "none" /\ call.features = <<>>) =>
        /\ call.out = <<>>
        /\ call.err = "none"
        /\ pc # "raised"
        /\ (InPlot /\ Len(trace) = 2 =>
                /\ pc = "plot_second"
                /\ (branch = "regression"
                        => ENABLED PlotRegressionCategorical)
                /\ (branch = "classification"
                        => ENABLED PlotClassificationCategorical))
        /\ (InPlot /\ Len(trace) = 3 => pc = "done")

C2_FirstPanelSkippedInPlot ==
    /\ InPlot /\ pc = "plot_second"
    /\ call.routine = "plot_classification_continuous"
    /\ call.features = <<>>
    /\ output = <<Printed("Target looks like classification"),
                  Fig("class_count_bar_chart", 1)>>

\* C3: an unknown kind passed to plot_classification_categorical, or an
\* unknown univariate_plot passed to plot_classification_continuous, is
\* raised as an error for every dataset, and the call has produced no
\* figure when it is raised.
C3_UnknownOptionRaisesWithoutOutput ==
    (\/ /\ call.routine = "plot_classification_categorical"
        /\ call.args.kind \notin {"auto", "count", "proportion", "mosaic"}
     \/ /\ call.routine = "plot_classification_continuous"
        /\ call.args.univariate_plot \notin {"histogram", "kde"})
    => (call.err = "ValueError" /\ call.out = <<>>)

KindOf(routine) ==
    IF routine \in {"plot_regression_continuous",
                    "plot_classification_continuous"}
    THEN "continuous" ELSE "categorical"

\* C6: in every panel routine and for every type annotation, one that flags
\* the target column continuous or categorical included, the features that
\* are scored, ranked and shown are the columns of the routine's kind,
\* the target column never among them.
C6_TargetNeverAFeature ==
    call.routine # "none" =>
        /\ target_col \notin Range(call.features)
        /\ Range(call.features) =
              {c \in Cols : types[c][KindOf(call.routine)]} \ {target_col}

C6_TargetFlaggedOfTheKind ==
    /\ call.routine = "plot_classification_continuous"
    /\ types[target_col].continuous
    /\ Len(call.features) > PairplotMax
    /\ HasFig(call.out, "class_hists")

\* C7 as stated: LDA output (the printed training score, the LDA scatter
\* figure, the LDA histogram) only when the target has at least 3 classes.
C7_LdaOnlyFromThreeClasses ==
    call.routine = "plot_classification_continuous" =>
        ((\/ HasPrint(call.out, "lda_score")
          \/ HasFig(call.out, "lda")
          \/ HasFig(call.out, "lda_hist")) => n_classes >= 3)

\* C7 amended: LDA is fitted, and its training score printed, whenever the
\* PCA figure was drawn, whatever the number of classes; the LDA scatter
\* figure is drawn exactly when the target then has at least 3 classes;
\* with 2 classes one LDA histogram is drawn instead and the call returns
\* normally.
C7_LdaScatterOnlyFromThreeClasses ==
    call.routine = "plot_classification_continuous" =>
        /\ (HasFig(call.out, "pca") <=> HasPrint(call.out, "lda_score"))
        /\ (HasFig(call.out, "lda") => n_classes >= 3)
        /\ (HasPrint(call.out, "lda_score") /\ n_classes >= 3
                => HasFig(call.out, "lda") /\ ~HasFig(call.out, "lda_hist"))
        /\ (HasPrint(call.out, "lda_score") /\ n_classes < 3
                => /\ HasFig(call.out, "lda_hist")
                   /\ ~HasFig(call.out, "lda")
                   /\ call.err = "none")
        /\ (HasFig(call.out, "lda_hist") \/ HasFig(call.out, "lda")
                => HasPrint(call.out, "lda_score"))

C7_TwoClassesLdaHistogram ==
    /\ call.routine = "plot_classification_continuous"
    /\ n_classes = 2
    /\ HasPrint(call.out, "lda_score")
    /\ HasFig(call.out, "lda_hist")
    /\ call.err = "none"

SearchFigure(space) ==
    IF space = "raw" THEN "interactions" ELSE space

\* C8: for each of the three interaction searches of
\* plot_classification_continuous and whatever number of pairs comes back,
\* the call completes without error; with no pair the figure is skipped,
\* otherwise the figure has one scatter panel per pair.
C8_AnyNumberOfPairsCompletes ==
    (/\ call.routine = "plot_classification_continuous"
     /\ call.args.univariate_plot \in {"histogram", "kde"}) =>
        /\ call.err = "none"
        /\ \A i \in DOMAIN call.searches :
              LET s == call.searches[i]
              IN  IF s.pairs = 0
                  THEN ~HasFig(call.out, SearchFigure(s.space))
                  ELSE Fig(SearchFigure(s.space), s.pairs)
                           \in Range(call.out)

-----------------------------------------------------------------------------
(* The ranking of the panel routines: top_k = np.argsort(f)[-show_top:][::-1] *)

RECURSIVE AscendingOrders(_, _)
\* Every order of the positions S a sort by f alone can give.
AscendingOrders(f, S) ==
    IF S = {} THEN {<<>>}
    ELSE LET least == {i \in S : \A j \in S : f[i] <= f[j]}
         IN  UNION {{<<i>> \o rest : rest \in AscendingOrders(f, S \ {i})}
                    : i \in least}

\* np.argsort(f): the default sort is not stable, so equal scores come in
\* any order
Argsort(f) == AscendingOrders(f, DOMAIN f)

\* s[-k:]
LastN(s, k) ==
    IF k = 0 \/ k >= Len(s) THEN s ELSE SubSeq(s, Len(s) - k + 1, Len(s))

FirstN(s, k) == IF k >= Len(s) THEN s ELSE SubSeq(s, 1, k)

\* s[::-1]
Reversed(s) == [i \in 1..Len(s) |-> s[Len(s) + 1 - i]]

TopKNotReversed(order, show_top) == LastN(order, show_top)

TopKFromTheFront(order, show_top) == Reversed(FirstN(order, show_top))

\* order[-show_top:][::-1]
TopK(order, show_top) == Reversed(LastN(order, show_top))

\* The panels drawn by "for i, (col_idx, ax) in enumerate(zip(top_k, axes))":
\* the feature each shows and the score in its title.  All routines take the
\* feature at top_k[i], plot_regression_categorical the one at i.
Panels(routine, f, top_k) ==
    [i \in 1..Len(top_k) |->
        [col |-> IF routine = "plot_regression_categorical" THEN i
                 ELSE top_k[i],
         score |-> f[top_k[i]]]]

Ranked(routine, f, order) ==
    LET show_top == GetNTop(Len(f))
        top_k == TopK(order, show_top)
    IN  [routine |-> routine, f |-> f, show_top |-> show_top,
         top_k |-> top_k, panels |-> Panels(routine, f, top_k)]

ScoreVectors ==
    UNION {[1..n -> 0..MaxScore] : n \in 1..MaxFeatures}

InitRank ==
    /\ pc = "idle"
    /\ \E f \in ScoreVectors :
          rank = [routine |-> "none", f |-> f, show_top |-> 0,
                  top_k |-> <<>>, panels |-> <<>>]
    /\ X_types = <<>>
    /\ ordinal = {}
    /\ types = <<>>
    /\ target_col = 0
    /\ n_rows = 0
    /\ n_classes = 0
    /\ branch = "none"
    /\ trace = <<>>
    /\ output = <<>>
    /\ call = [NoCall EXCEPT !.args = NoArgs]
    /\ est = <<>>
    /\ ex = <<>>

\* plot_regression_continuous, lines 58-83
RankRegressionContinuous ==
    /\ pc = "idle"
    /\ \E order \in Argsort(rank.f) :
          rank' = Ranked("plot_regression_continuous", rank.f, order)
    /\ pc' = "ranked"
    /\ UNCHANGED <<plotState, est, ex>>

\* plot_regression_categorical, lines 119-139
RankRegressionCategorical ==
    /\ pc = "idle"
    /\ \E order \in Argsort(rank.f) :
          rank' = Ranked("plot_regression_categorical", rank.f, order)
    /\ pc' = "ranked"
    /\ UNCHANGED <<plotState, est, ex>>

\* plot_classification_continuous, lines 207-246: ranks when there are more
\* than 5 features
RankClassificationContinuous ==
    /\ pc = "idle"
    /\ Len(rank.f) > PairplotMax
    /\ \E order \in Argsort(rank.f) :
          rank' = Ranked("plot_classification_continuous", rank.f, order)
    /\ pc' = "ranked"
    /\ UNCHANGED <<plotState, est, ex>>

\* plot_classification_categorical, lines 397-411
RankClassificationCategorical ==
    /\ pc = "idle"
    /\ \E order \in Argsort(rank.f) :
          rank' = Ranked("plot_classification_categorical", rank.f, order)
    /\ pc' = "ranked"
    /\ UNCHANGED <<plotState, est, ex>>

NextRank ==
    \/ RankRegressionContinuous
    \/ RankRegressionCategorical
    \/ RankClassificationContinuous
    \/ RankClassificationCategorical

SpecRank == InitRank /\ [][NextRank]_vars

-----------------------------------------------------------------------------
(* Properties of the ranking, checked under SpecRank *)

Kept == Range(rank.top_k)
Dropped == DOMAIN rank.f \ Kept

NonIncreasing(f, top_k) ==
    \A a, b \in DOMAIN top_k : a < b => f[top_k[a]] >= f[top_k[b]]

\* C4: with at least one continuous feature, top_k of
\* plot_regression_continuous holds exactly min(show_top, n_features)
\* column positions, all distinct, all positions of the feature columns,
\* in non-increasing order of score.
C4_TopKOfRegressionContinuous ==
    rank.routine = "plot_regression_continuous" =>
        /\ Len(rank.top_k) = Min(rank.show_top, Len(rank.f))
        /\ \A a, b \in DOMAIN rank.top_k :
              a # b => rank.top_k[a] # rank.top_k[b]
        /\ Kept \subseteq DOMAIN rank.f
        /\ NonIncreasing(rank.f, rank.top_k)

C4_TruncatedRanking ==
    /\ rank.routine = "plot_regression_continuous"
    /\ Len(rank.f) > rank.show_top
    /\ Len(rank.top_k) = rank.show_top
    /\ rank.f[rank.top_k[1]] > rank.f[rank.top_k[Len(rank.top_k)]]
    /\ Dropped # {}

\* C5 as stated: of two features with equal scores the one earlier in the
\* column order comes first in the ranking, and is the one kept when only
\* one of them fits within show_top, in all four panel routines.
C5_TiesInColumnOrder ==
    rank.routine # "none" =>
        /\ \A a, b \in DOMAIN rank.top_k :
              (a < b /\ rank.f[rank.top_k[a]] = rank.f[rank.top_k[b]])
                  => rank.top_k[a] < rank.top_k[b]
        /\ \A i \in Kept, j \in Dropped :
              rank.f[i] = rank.f[j] => i < j

\* C5 amended: in all four panel routines a feature with a strictly higher
\* score comes before one with a lower score and is kept in preference to
\* it; among features with equal scores neither the order nor the choice of
\* the ones kept follows the column order.
C5_OnlyScoresOrderTheRanking ==
    rank.routine # "none" =>
        /\ \A a, b \in DOMAIN rank.top_k :
              rank.f[rank.top_k[a]] > rank.f[rank.top_k[b]] => a < b
        /\ \A i \in Kept, j \in Dropped : rank.f[i] >= rank.f[j]

C5_LaterTiedFeatureFirstAndKept ==
    /\ rank.routine = "plot_classification_categorical"
    /\ \E a, b \in DOMAIN rank.top_k :
          /\ a < b
          /\ rank.f[rank.top_k[a]] = rank.f[rank.top_k[b]]
          /\ rank.top_k[a] > rank.top_k[b]
    /\ \E i \in Kept, j \in Dropped : rank.f[i] = rank.f[j] /\ i > j

-----------------------------------------------------------------------------
(* Estimators: models, dabl's wrappers around est_, sklearn pipelines *)

Wrappers == {"SimpleClassifier", "SimpleRegressor", "AnyClassifier"}

\* LinearModel: any model with coef_; OtherModel: one with neither coef_ nor
\* a class explain() knows
Models == {"DecisionTreeClassifier", "LinearModel", "RandomForestClassifier",
           "OtherModel"}

Model(cls) == [cls |-> cls]
\* est_ of a fitted wrapper: a pipeline or a model
Wrapper(cls, e) == [cls |-> cls, est_ |-> e]
Pipeline(n_steps, final) ==
    [cls |-> "Pipeline", n_steps |-> n_steps, final |-> final]

\* len(steps) of a pipeline: fewer than, exactly and more than the 2 that
\* _extract_inner_estimator asserts
StepCounts == {1, 2, 3}

RECURSIVE Estimators(_)
Estimators(depth) ==
    IF depth = 0 THEN {Model(c) : c \in Models}
    ELSE LET inner == Estimators(depth - 1)
         IN  inner
             \cup {Wrapper(w, e) : w \in Wrappers,
                                   e \in {i \in inner : i.cls \notin Wrappers}}
             \cup {Pipeline(k, e) : k \in StepCounts, e \in inner}

NoEstimator == [cls |-> "none"]

IsModel(e) == e.cls \in Models

HasCoef(e) == e.cls = "LinearModel"

Extracted(err, inner, feature_names) ==
    [err |-> err, inner |-> inner, feature_names |-> feature_names]

ExtractWithoutAssert(estimator, feature_names, takes_input_names) ==
    LET inner_estimator == IF estimator.cls \in Wrappers THEN estimator.est_
                           ELSE estimator
    IN  IF inner_estimator.cls = "Pipeline"
        THEN Extracted("none", inner_estimator.final, "step names")
        ELSE Extracted("none", inner_estimator, feature_names)

\* _extract_inner_estimator(estimator, feature_names); takes_input_names:
\* whether the first step's get_feature_names accepts the input names
ExtractInnerEstimator(estimator, feature_names, takes_input_names) ==
    LET inner_estimator ==
            IF estimator.cls \in {"SimpleClassifier", "SimpleRegressor"}
            THEN estimator.est_
            ELSE IF estimator.cls = "AnyClassifier" THEN estimator.est_
            ELSE estimator
    IN  IF inner_estimator.cls = "Pipeline"
        THEN IF inner_estimator.n_steps # 2
             THEN Extracted("AssertionError", NoEstimator, feature_names)
             ELSE Extracted("none", inner_estimator.final,
                            IF takes_input_names
                            THEN "step names of " \o feature_names
                            ELSE "step names")
        ELSE Extracted("none", inner_estimator, feature_names)

-----------------------------------------------------------------------------
(* explain() *)

Warned(name) == [kind |-> "warning", name |-> name, panels |-> 0]

NamesNeverUnknown(given, has_feature_names_) == FALSE

\* lines 55-60: feature_names is None and estimator.feature_names_ is missing
NamesUnknown(given, has_feature_names_) == ~given /\ ~has_feature_names_

\* classification_metrics(estimator, X_val, y_val), lines 19-31
ClassificationMetrics(st, classes, roc) ==
    LET reported == Add(st, <<Printed("classification_report"),
                              Printed("confusion_matrix")>>)
    IN  IF roc = "ImportError" THEN Add(reported, <<Warned("roc_curve")>>)
        ELSE IF classes < 2 THEN reported
        ELSE IF roc # "ok" THEN Raise(reported, roc)
        ELSE IF classes = 2 THEN Add(reported, <<Fig("roc_curve", 1)>>)
        ELSE Add(reported, <<Fig("multiclass_roc_curve", 1)>>)

\* _make_subplots(n_plots) of dabl.plot.utils: the number of axes of the grid
\* find_pretty_grid lays out for n_plots panels, near-square with at least as
\* many columns as rows
PrettyCols(n_plots) == CHOOSE c \in 1..n_plots : c * c >= n_plots /\ (c - 1) * (c - 1) < n_plots

PrettyRows(n_plots) == CHOOSE r \in 1..n_plots : r * PrettyCols(n_plots) >= n_plots /\ (r - 1) * PrettyCols(n_plots) < n_plots

MakeSubplots(n_plots) == PrettyRows(n_plots) * PrettyCols(n_plots)

\* One call of plot_coefficients for a row of coef_: the row shown and the
\* class its title names (0: no classname given)
CoefPanel(row, classname) == [row |-> row, classname |-> classname]

ZipOnlyFirst(n_axes, n_classes_, coef_rows) == <<CoefPanel(1, 1)>>

\* lines 108-110: zip(axes.ravel(), inner_estimator.classes_, coef) stops at
\* the shortest of the three and pairs the k-th class with the k-th row
ZipCoefficients(n_axes, n_classes_, coef_rows) ==
    [k \in 1..Min(n_axes, Min(n_classes_, coef_rows)) |-> CoefPanel(k, k)]

Shown(st, panels) == [st EXCEPT !.coef = panels]

\* lines 83-122: what is shown of the inner estimator.  coef_ has
\* a.coef_rows rows over at least 2 features, so np.squeeze leaves 2
\* dimensions whenever there is more than one row.
ShowModel(st, inner, a, n_cls, depth_known) ==
    IF st.done THEN st
    ELSE IF inner.cls = "DecisionTreeClassifier"
    THEN LET described ==
                 Add(st, <<Printed("repr")>> \o
                         (IF depth_known
                          THEN <<Printed("depth"), Printed("leaves")>>
                          ELSE <<Warned("tree depth")>>))
         IN  IF a.classes = 0 THEN Raise(described, "AttributeError")
             ELSE Add(described, <<Fig("tree", 1), Fig("coefficients", 1)>>)
    ELSE IF HasCoef(inner)
    THEN IF n_cls > 2
         THEN LET panels == ZipCoefficients(MakeSubplots(n_cls), a.classes,
                                            a.coef_rows)
              IN  Shown(Add(st, <<Fig("coefficients", Len(panels))>>), panels)
         ELSE IF a.coef_rows > 1 THEN Raise(st, "ValueError")
              ELSE Shown(Add(st, <<Fig("coefficients", 1)>>),
                         <<CoefPanel(1, 0)>>)
    ELSE IF inner.cls = "RandomForestClassifier"
    THEN Add(st, <<Fig("coefficients", 1)>>)
    ELSE st

RECURSIVE Repeat(_, _)
Repeat(x, n) == IF n = 0 THEN <<>> ELSE <<x>> \o Repeat(x, n - 1)

\* max_features of SelectFromModel, line 127
MaxSelected == 10

\* The numbers of features whose importance passes the selector's threshold
ImportantChoices == {3, MaxSelected + 1}

\* fs.transform([feature_names]), lines 127-128: the features that pass the
\* threshold, the max_features most important of them at most
SelectFromModel(n_important) == Min(n_important, MaxSelected)

Selecting(st, n) == [st EXCEPT !.selected = n]

PdpWithoutCoefTest(st, inner) == FALSE

\* line 129: no partial dependence for an inner estimator with coef_
PdpSkipped(st, inner) == HasCoef(inner)

\* lines 124-151: model-based feature selection, partial dependence; one
\* panel per selected feature in every figure
PartialDependence(st, inner, n_cls, lib) ==
    IF st.done THEN st
    ELSE IF lib.select # "ok" THEN Raise(st, lib.select)
    ELSE LET features == SelectFromModel(lib.n_important)
             selected == Selecting(st, features)
             computing ==
                 Add(selected, <<Printed("Computing partial dependence")>>)
         IN  IF PdpSkipped(st, inner) THEN selected
             ELSE IF lib.pdp = "ValueError"
             THEN Add(computing, <<Warned("partial dependence")>>)
             ELSE IF lib.pdp # "ok" THEN Raise(computing, lib.pdp)
             ELSE Add(computing,
                      Repeat(Fig("partial_dependence", features),
                             IF n_cls <= 2 THEN 1 ELSE n_cls))

ExplainArgs(given, has_feature_names_, classes, X_val, coef_rows) ==
    [feature_names |-> given, has_feature_names_ |-> has_feature_names_,
     classes |-> classes, X_val |-> X_val, coef_rows |-> coef_rows]

Explained(a, lib, unwrap, inner, st) ==
    [called |-> TRUE, args |-> a, lib |-> lib, unwrap |-> unwrap,
     inner |-> inner, out |-> st.out, coef |-> st.coef,
     selected |-> st.selected, err |-> st.err]

\* explain(estimator, X_val, y_val, target_col, feature_names); lib: how the
\* calls into the libraries end
Explain(estimator, a, lib) ==
    LET st0 == [out |-> <<>>, searches |-> <<>>, coef |-> <<>>,
                selected |-> 0, err |-> "none", done |-> FALSE]
        feature_names == IF a.feature_names THEN "feature_names"
                         ELSE "estimator.feature_names_"
        classifier == a.classes >= 2
        \* n_classes of explain()
        n_cls == IF classifier THEN a.classes ELSE 1
        x == ExtractInnerEstimator(estimator, feature_names,
                                   lib.takes_input_names)
        st1 == IF a.X_val /\ classifier
               THEN ClassificationMetrics(st0, a.classes, lib.roc)
               ELSE st0
        st2 == ShowModel(st1, x.inner, a, n_cls, lib.depth_known)
        st3 == IF a.X_val
               THEN PartialDependence(st2, x.inner, n_cls, lib)
               ELSE st2
    IN  IF NamesUnknown(a.feature_names, a.has_feature_names_)
        THEN Explained(a, lib, "not reached", NoEstimator,
                       Raise(st0, "ValueError"))
        ELSE IF x.err # "none"
        THEN Explained(a, lib, x.err, NoEstimator, Raise(st0, x.err))
        ELSE Explained(a, lib, "returned", x.inner, st3)

\* How the calls into the libraries may end, for the calls explain() makes
\* on this estimator with these arguments
LibraryOutcomes(estimator, a) ==
    LET x == ExtractInnerEstimator(estimator, "feature_names", TRUE)
        unwrapped == IF estimator.cls \in Wrappers THEN estimator.est_
                     ELSE estimator
    IN  [roc : IF a.X_val /\ a.classes >= 2
               THEN {"ok", "ImportError", "RuntimeError"} ELSE {"ok"},
         select : IF a.X_val THEN {"ok", "ValueError"} ELSE {"ok"},
         n_important : IF a.X_val THEN ImportantChoices ELSE {3},
         pdp : IF a.X_val /\ ~HasCoef(x.inner)
               THEN {"ok", "ValueError", "RuntimeError"} ELSE {"ok"},
         depth_known : IF x.inner.cls = "DecisionTreeClassifier"
                       THEN BOOLEAN ELSE {TRUE},
         takes_input_names : IF unwrapped.cls = "Pipeline"
                             THEN BOOLEAN ELSE {TRUE}]

NoFailure ==
    [roc |-> "ok", select |-> "ok", n_important |-> 3, pdp |-> "ok",
     depth_known |-> TRUE, takes_input_names |-> TRUE]

NotCalled ==
    [called |-> FALSE, args |-> ExplainArgs(FALSE, FALSE, 0, FALSE, 0),
     lib |-> NoFailure, unwrap |-> "not reached", inner |-> NoEstimator,
     out |-> <<>>, coef |-> <<>>, selected |-> 0, err |-> "none"]

InitExplain ==
    /\ pc = "idle"
    /\ est \in Estimators(MaxDepth)
    /\ ex = NotCalled
    /\ X_types = <<>>
    /\ ordinal = {}
    /\ types = <<>>
    /\ target_col = 0
    /\ n_rows = 0
    /\ n_classes = 0
    /\ branch = "none"
    /\ trace = <<>>
    /\ output = <<>>
    /\ call = [NoCall EXCEPT !.args = NoArgs]
    /\ rank = <<>>

CallExplain ==
    /\ pc = "idle"
    /\ \E given \in BOOLEAN, has_feature_names_ \in BOOLEAN,
          classes \in 0..MaxExplainClasses, X_val \in BOOLEAN,
          coef_rows \in 1..MaxExplainClasses :
          LET a == ExplainArgs(given, has_feature_names_, classes, X_val,
                               coef_rows)
          IN  \E lib \in LibraryOutcomes(est, a) : ex' = Explain(est, a, lib)
    /\ pc' = IF ex'.err = "none" THEN "done" ELSE "raised"
    /\ UNCHANGED <<plotState, rank, est>>

NextExplain == CallExplain

SpecExplain == InitExplain /\ [][NextExplain]_vars

-----------------------------------------------------------------------------
(* Properties of explain(), checked under SpecExplain *)

\* C9: explain() called without feature_names on an estimator that has no
\* feature_names_ fails with a ValueError before the estimator is unwrapped,
\* before any metric is printed and before any plot is made.
C9_UnknownNamesFailFirst ==
    (ex.called /\ ~ex.args.feature_names /\ ~ex.args.has_feature_names_) =>
        /\ ex.err = "ValueError"
        /\ ex.unwrap = "not reached"
        /\ ex.inner = NoEstimator
        /\ ex.out = <<>>
        /\ pc = "raised"

C9_NamesUnknownWithValidationData ==
    /\ ex.called /\ ~ex.args.feature_names /\ ~ex.args.has_feature_names_
    /\ ex.args.X_val /\ ex.args.classes >= 2
    /\ est.cls \in Wrappers /\ est.est_.cls = "Pipeline"
    /\ pc = "raised"

\* C10 as stated: _extract_inner_estimator fails with an assertion when a
\* pipeline has not exactly 2 steps, or returns an estimator that is neither
\* a wrapper nor a pipeline.
C10_InnerIsNeverWrapperOrPipeline ==
    ex.unwrap # "not reached" =>
        \/ ex.unwrap = "AssertionError"
        \/ (ex.unwrap = "returned" /\ IsModel(ex.inner))

\* The nesting _extract_inner_estimator is written for: a model, in at most
\* one pipeline, in at most one wrapper.
ExpectedNesting(e) ==
    LET unwrapped == IF e.cls \in Wrappers THEN e.est_ ELSE e
        final == IF unwrapped.cls = "Pipeline" THEN unwrapped.final
                 ELSE unwrapped
    IN  IsModel(final)

PipelineOf(e) ==
    IF e.cls = "Pipeline" THEN e
    ELSE IF e.cls \in Wrappers /\ e.est_.cls = "Pipeline" THEN e.est_
    ELSE NoEstimator

\* C10 amended: _extract_inner_estimator fails with an assertion exactly when
\* the estimator, one wrapper removed, is a pipeline without exactly 2 steps.
\* Otherwise it returns, and what it returns is neither a wrapper nor a
\* pipeline exactly when the nesting is no deeper than wrapper, pipeline,
\* model; a wrapper or pipeline nested deeper is returned as the inner model
\* without any error.
C10_InnerIsModelForExpectedNesting ==
    ex.unwrap # "not reached" =>
        /\ (ex.unwrap = "AssertionError"
               <=> (PipelineOf(est) # NoEstimator
                       /\ PipelineOf(est).n_steps # 2))
        /\ (ex.unwrap = "returned"
               => (IsModel(ex.inner) <=> ExpectedNesting(est)))

C10_NestedPipelineReturned ==
    /\ ex.unwrap = "returned"
    /\ est.cls = "Pipeline" /\ est.n_steps = 2
    /\ ex.inner.cls = "Pipeline"
    /\ pc = "done"

\* explain() came to the dispatch on the inner estimator (line 83): the
\* estimator was unwrapped and classification_metrics did not raise
ReachedShow ==
    /\ ex.called /\ ex.unwrap = "returned"
    /\ ~(ex.args.X_val /\ ex.args.classes >= 2
           /\ ex.lib.roc \notin {"ok", "ImportError"})

WrappedLinear ==
    /\ est.cls \in Wrappers /\ ExpectedNesting(est)
    /\ ex.inner.cls = "LinearModel"

\* n_classes of explain(), lines 62-67
NClassesOf(a) == IF a.classes >= 2 THEN a.classes ELSE 1

CoefFigures == SelectSeq(ex.out, LAMBDA e : e.kind = "figure" /\ e.name = "coefficients")

OnePanelPerClass ==
    /\ ex.coef = [k \in 1..ex.args.classes |-> CoefPanel(k, k)]
    /\ CoefFigures = <<Fig("coefficients", ex.args.classes)>>

\* C11 as stated: a wrapped linear model with n > 2 classes and one row of
\* coef_ per class gets n coefficient panels, the k-th showing row k under
\* the name of class k; with 2 or fewer classes exactly one coefficient panel
\* is rendered.
C11_CoefficientPanelPerClassElseOne ==
    (ReachedShow /\ WrappedLinear) =>
        /\ (ex.args.classes > 2 /\ ex.args.coef_rows = ex.args.classes)
               => OnePanelPerClass
        /\ ex.args.classes <= 2 => Len(ex.coef) = 1

\* C11 amended: a wrapped linear model with n > 2 classes and one row of
\* coef_ per class gets n coefficient panels, the k-th showing row k under
\* the name of class k.  With 2 or fewer classes one unnamed coefficient
\* panel is rendered when coef_ has a single row; when coef_ has more rows
\* explain() raises ValueError and renders no coefficient panel.
C11_CoefficientPanelPerClassOrSingleRow ==
    (ReachedShow /\ WrappedLinear) =>
        /\ (ex.args.classes > 2 /\ ex.args.coef_rows = ex.args.classes)
               => OnePanelPerClass
        /\ (ex.args.classes <= 2 /\ ex.args.coef_rows = 1)
               => /\ ex.coef = <<CoefPanel(1, 0)>>
                  /\ CoefFigures = <<Fig("coefficients", 1)>>
        /\ (ex.args.classes <= 2 /\ ex.args.coef_rows > 1)
               => /\ ex.err = "ValueError" /\ pc = "raised"
                  /\ ex.coef = <<>> /\ CoefFigures = <<>>

C11_ThreeClassesThreePanels ==
    /\ ReachedShow /\ WrappedLinear
    /\ ex.args.classes = 3 /\ ex.args.coef_rows = 3
    /\ Len(ex.coef) = 3 /\ ex.coef[3] = CoefPanel(3, 3)
    /\ pc = "done"

C11_TwoClassesTwoRowsRaises ==
    /\ ReachedShow /\ WrappedLinear
    /\ ex.args.classes = 2 /\ ex.args.coef_rows = 2
    /\ ex.err = "ValueError" /\ ex.coef = <<>>

PdpFigures == SelectSeq(ex.out, LAMBDA e : e.kind = "figure" /\ e.name = "partial_dependence")

\* One partial-dependence figure for at most 2 classes, one per class
\* otherwise, each with a panel per selected feature
PdpPerClass ==
    PdpFigures = Repeat(Fig("partial_dependence", ex.selected),
                        IF NClassesOf(ex.args) <= 2 THEN 1
                        ELSE NClassesOf(ex.args))

\* explain() was given validation data and every step before and in the
\* partial-dependence step went through
ValidatedAndCompleted ==
    /\ ReachedShow /\ ex.args.X_val
    /\ ex.inner.cls \in {"DecisionTreeClassifier", "LinearModel",
                         "RandomForestClassifier"}
    /\ ex.err = "none" /\ ex.lib.pdp = "ok"

\* C12 as stated: with validation data, for a tree, a linear model and an
\* ensemble alike, at most 10 features are selected and partial-dependence
\* figures are rendered for them, one for at most 2 classes and one per
\* class otherwise.
C12_PartialDependenceForEveryModel ==
    ValidatedAndCompleted =>
        /\ ex.selected \in 1..MaxSelected
        /\ PdpPerClass

\* C12 amended: with validation data at most 10 features are selected for
\* every kind of inner model; partial-dependence figures, one for at most 2
\* classes and one per class otherwise, are rendered only for an inner model
\* without coef_.  For a linear model nothing is computed or rendered after
\* the selection.
C12_PartialDependenceUnlessCoef ==
    ValidatedAndCompleted =>
        /\ ex.selected = Min(ex.lib.n_important, MaxSelected)
        /\ ex.selected \in 1..MaxSelected
        /\ IF HasCoef(ex.inner)
           THEN PdpFigures = <<>>
                /\ ~\E i \in 1..Len(ex.out) :
                       ex.out[i] = Printed("Computing partial dependence")
           ELSE PdpPerClass

C12_TreeThreeClassesTenFeatures ==
    /\ ValidatedAndCompleted
    /\ ex.inner.cls = "DecisionTreeClassifier"
    /\ ex.args.classes = 3 /\ ex.lib.n_important > MaxSelected
    /\ PdpFigures = Repeat(Fig("partial_dependence", MaxSelected), 3)
    /\ pc = "done"

C12_LinearModelNoPartialDependence ==
    /\ ValidatedAndCompleted
    /\ ex.inner.cls = "LinearModel" /\ ex.selected > 0
    /\ PdpFigures = <<>>
    /\ pc = "done"

\* The dispatch on the inner estimator raises by itself: classes_ is missing
\* for the class names of a tree (line 93), or coef_ keeps 2 dimensions
\* (lines 113-115)
ShowRaises ==
    \/ ex.inner.cls = "DecisionTreeClassifier" /\ ex.args.classes = 0
    \/ /\ HasCoef(ex.inner) /\ NClassesOf(ex.args) <= 2
       /\ ex.args.coef_rows > 1

\* A library call of an auxiliary plot failed: the ROC curve, the feature
\* selection or the partial dependence
LibraryFailed ==
    /\ ex.called /\ ex.unwrap = "returned" /\ ex.args.X_val
    /\ \/ ex.args.classes >= 2 /\ ex.lib.roc # "ok"
       \/ ex.lib.select # "ok"
       \/ ex.lib.pdp # "ok"

HasWarning == \E i \in 1..Len(ex.out) : ex.out[i].kind = "warning"

\* C13 as stated: a failure of the library in the ROC curve step or in the
\* partial-dependence step, feature selection included, never reaches the
\* caller: a warning is emitted and explain() completes.
C13_LibraryFailureNeverPropagates ==
    (LibraryFailed /\ ~ShowRaises) =>
        /\ ex.err = "none" /\ pc = "done"
        /\ HasWarning

-----------------------------------------------------------------------------
(* Properties of plot() and the panel routines, checked under Spec *)

PairwiseFigures == {"pairplot", "interactions", "pca", "lda", "lda_hist"}

\* C14 as stated: with plot_pairwise False plot_classification_continuous
\* creates no pairplot, no feature-interaction figure, no PCA figure and no
\* LDA output, and runs no interaction search, however many continuous
\* features there are.
C14_NoPairwisePlotWhenDisabled ==
    (call.routine = "plot_classification_continuous"
        /\ ~call.args.plot_pairwise) =>
        /\ \A name \in PairwiseFigures : ~HasFig(call.out, name)
        /\ ~HasPrint(call.out, "lda_score")
        /\ call.searches = <<>>

\* The rewrite of plot() has run: types is what the panel routines get,
\* X_types what clean() returned
Reclassified == branch # "none"

\* C16: after the rewrite of low_card_int columns in plot() no column is
\* flagged low_card_int; a column that was flagged low_card_int is flagged
\* continuous and not categorical if guess_ordinal accepts it, categorical
\* and not continuous otherwise; the flags of every other column are as
\* they were.
C16_LowCardIntRewritten ==
    Reclassified =>
        \A c \in Cols :
            /\ ~types[c].low_card_int
            /\ X_types[c].low_card_int =>
                   /\ types[c].continuous <=> c \in ordinal
                   /\ types[c].categorical <=> c \notin ordinal
            /\ ~X_types[c].low_card_int => types[c] = X_types[c]

C16_OneOrdinalOneCategorical ==
    /\ Reclassified /\ pc = "done"
    /\ \E c, d \in LowCardCols(X_types) :
          /\ c \in ordinal /\ types[c].continuous
          /\ d \notin ordinal /\ types[d].categorical
    /\ \E c \in Cols : X_types[c].continuous /\ types[c] = X_types[c]

-----------------------------------------------------------------------------
(* Properties of the panels, checked under SpecRank *)

\* C15 as stated: in plot_regression_categorical the k-th panel shows a
\* feature with the k-th highest score, and the score in the panel's title
\* is the score of the feature the panel shows.
C15_PanelShowsRankedFeature ==
    rank.routine = "plot_regression_categorical" =>
        \A k \in 1..Len(rank.panels) :
            /\ rank.f[rank.panels[k].col] = rank.f[rank.top_k[k]]
            /\ rank.panels[k].score = rank.f[rank.panels[k].col]

====
